---------------------------- MODULE Spec2Model ----------------------------
(***************************************************************************)
(* A model of pomeranian: the pomodoro cadence machine (pomodoro.rs), the  *)
(* scheduling engine (scheduler.rs) and the Db wrapper (db.rs).            *)
(*                                                                         *)
(* Time is a natural number.  A slot is a key of the slot map (the start   *)
(* of a time slice); its value is None or a task id.  A task exposes what  *)
(* the Task trait exposes: priority, working period [start, end) and      *)
(* estimated length.                                                       *)
(***************************************************************************)
EXTENDS Naturals, Integers, Sequences, FiniteSets, TLC

(***************************************************************************)
(* Bounds of the model.                                                    *)
(***************************************************************************)
MaxTasks == 3        \* the task tables of Spec hold at most MaxTasks tasks
MaxSlots == 3        \* layout_slots lays out MaxSlots consecutive slots
MaxPrio == 3         \* priorities are 1..MaxPrio

(***************************************************************************)
(* The length of a time slice, in the model's time unit (the test fixtures *)
(* and Db::default use 25 minutes).  Estimated lengths are measured in the *)
(* same unit, so that div_ceil is exercised with a remainder.              *)
(***************************************************************************)
timeslice_length == 2

None == 0

-----------------------------------------------------------------------------
(***************************************************************************)
(* scheduler.rs: the Task trait.                                           *)
(***************************************************************************)

\* u64::div_ceil
DivCeil(a, b) == (a + b - 1) \div b

\* Task::estimated_length: the field of the tests' ExplicitTask; for a CTask
\* (db.rs lines 203-205) what is left of it, estimated_length - worked_length
estimated_length(task) ==
    IF "worked_length" \in DOMAIN task
    THEN task.estimated_length - task.worked_length
    ELSE task.estimated_length

\* Task::divided_into
divided_into(task, duration) == DivCeil(estimated_length(task), duration)

\* Range::contains for the half-open working period
Contains(task, time) == task.start <= time /\ time < task.end

\* wp.end - wp.start, the key of the seed phase's sort
PeriodLength(task) == task.end - task.start

-----------------------------------------------------------------------------
(***************************************************************************)
(* Helpers for iterating a BTreeMap in key order.                          *)
(***************************************************************************)
MinOf(S) == CHOOSE x \in S : \A y \in S : x <= y

RECURSIVE SortedSeq(_)
SortedSeq(S) == IF S = {} THEN <<>>
                ELSE LET m == MinOf(S) IN <<m>> \o SortedSeq(S \ {m})

\* the keys of the slot map, ascending
Keys(sl) == SortedSeq(DOMAIN sl)

\* slots.values().filter(|v| v == Some(id)).count()
Held(sl, id) == Cardinality({k \in DOMAIN sl : sl[k] = id})

\* the range taken with its end included, start..=end
RangeKeysClosed(sl, task) ==
    SortedSeq({k \in DOMAIN sl : task.start <= k /\ k <= task.end})

\* slots.range(task.working_period()), ascending
RangeKeys(sl, task) == SortedSeq({k \in DOMAIN sl : Contains(task, k)})

\* sort_by_key / sorted_by_key: a stable sort of seq by the keys keyOf[x]
RECURSIVE InsertStable(_, _, _)
InsertStable(sorted, x, keyOf) ==
    IF sorted = <<>> THEN <<x>>
    ELSE IF keyOf[Head(sorted)] <= keyOf[x]
         THEN <<Head(sorted)>> \o InsertStable(Tail(sorted), x, keyOf)
         ELSE <<x>> \o sorted

RECURSIVE StableSort(_, _)
StableSort(seq, keyOf) ==
    IF seq = <<>> THEN <<>>
    ELSE InsertStable(StableSort(SubSeq(seq, 1, Len(seq) - 1), keyOf),
                      seq[Len(seq)], keyOf)

\* the orders in which a HashMap with the keys S may be iterated
Orders(S) == {o \in [1..Cardinality(S) -> S] : \A x \in S : \E i \in DOMAIN o : o[i] = x}

-----------------------------------------------------------------------------
(***************************************************************************)
(* scheduler.rs: Schedule::unsatisfied_tasks and Schedule::check_times.    *)
(***************************************************************************)
unsatisfied_tasks(tasks, sl) ==
    {id \in DOMAIN tasks : Held(sl, id) < divided_into(tasks[id], timeslice_length)}

\* tasks[task] panics on an id that is not in the task table
check_times(tasks, sl) ==
    \A k \in DOMAIN sl :
        sl[k] # None => (sl[k] \in DOMAIN tasks /\ Contains(tasks[sl[k]], k))

-----------------------------------------------------------------------------
(***************************************************************************)
(* scheduler.rs: Schedule::schedule.  The working state is the slot map    *)
(* and, per task, wants_change (wants - has, an i64).  `order` is the      *)
(* iteration order of the local HashMap `tasks`.                           *)
(***************************************************************************)

\* lines 91-118: wants_change = divided_into - (slots holding the id)
InitialWants(tasks, sl) ==
    [id \in DOMAIN tasks |->
        divided_into(tasks[id], timeslice_length) - Held(sl, id)]

\* the first phase without lines 125-128: a slot whose occupant is not in
\* the task table is passed over
RECURSIVE FreeSurplusKeepsOrphans(_, _, _)
FreeSurplusKeepsOrphans(tasks, st, keys) ==
    IF keys = <<>> THEN st
    ELSE LET k == Head(keys)
             id == st.slots[k]
         IN IF id = None \/ id \notin DOMAIN tasks
            THEN FreeSurplusKeepsOrphans(tasks, st, Tail(keys))
            ELSE IF st.wants[id] >= 0
                 THEN FreeSurplusKeepsOrphans(tasks, st, Tail(keys))
            ELSE FreeSurplusKeepsOrphans(tasks,
                     [st EXCEPT !.slots[k] = None, !.wants[id] = @ + 1],
                     Tail(keys))

\* the first phase with `> 0` for `>= 0` in line 129: a task that holds just
\* what it needs gives up a slot as well
RECURSIVE FreeSurplusAtZero(_, _, _)
FreeSurplusAtZero(tasks, st, keys) ==
    IF keys = <<>> THEN st
    ELSE LET k == Head(keys)
             id == st.slots[k]
         IN IF id = None THEN FreeSurplusAtZero(tasks, st, Tail(keys))
            ELSE IF id \notin DOMAIN tasks
                 THEN FreeSurplusAtZero(tasks, [st EXCEPT !.slots[k] = None], Tail(keys))
            ELSE IF st.wants[id] > 0 THEN FreeSurplusAtZero(tasks, st, Tail(keys))
            ELSE FreeSurplusAtZero(tasks,
                                   [st EXCEPT !.slots[k] = None, !.wants[id] = @ + 1],
                                   Tail(keys))

\* lines 120-134: free the slots of tasks that hold more than they need, and
\* the slots whose occupant is not in the task table
RECURSIVE FreeSurplus(_, _, _)
FreeSurplus(tasks, st, keys) ==
    IF keys = <<>> THEN st
    ELSE LET k == Head(keys)
             id == st.slots[k]
         IN IF id = None THEN FreeSurplus(tasks, st, Tail(keys))
            ELSE IF id \notin DOMAIN tasks
                 THEN FreeSurplus(tasks, [st EXCEPT !.slots[k] = None], Tail(keys))
            ELSE IF st.wants[id] >= 0 THEN FreeSurplus(tasks, st, Tail(keys))
            ELSE FreeSurplus(tasks,
                             [st EXCEPT !.slots[k] = None, !.wants[id] = @ + 1],
                             Tail(keys))

\* the claim of lines 141-150 over the range reversed (.rev()): the latest
\* empty slots of the working period are taken first
RECURSIVE TakeSlotsLatestFirst(_, _, _)
TakeSlotsLatestFirst(st, id, keys) ==
    IF st.wants[id] <= 0 \/ keys = <<>> THEN st
    ELSE LET k == keys[Len(keys)]
             rest == SubSeq(keys, 1, Len(keys) - 1)
         IN IF st.slots[k] = None
            THEN TakeSlotsLatestFirst([st EXCEPT !.slots[k] = id, !.wants[id] = @ - 1],
                                      id, rest)
            ELSE TakeSlotsLatestFirst(st, id, rest)

\* lines 141-150: one task claims empty slots of its working period, in time
\* order, while it wants more
RECURSIVE TakeSlots(_, _, _)
TakeSlots(st, id, keys) ==
    IF st.wants[id] <= 0 \/ keys = <<>> THEN st
    ELSE IF st.slots[Head(keys)] = None
         THEN TakeSlots([st EXCEPT !.slots[Head(keys)] = id, !.wants[id] = @ - 1],
                        id, Tail(keys))
         ELSE TakeSlots(st, id, Tail(keys))

\* the seed phase without its sort: the tasks as the HashMap yields them
SeedOrderUnsorted(tasks, order) == order

\* lines 137-140: the tasks in ascending order of working period length
SeedOrder(tasks, order) ==
    StableSort(order, [id \in DOMAIN tasks |-> PeriodLength(tasks[id])])

\* lines 136-151: the greedy seed
RECURSIVE Seed(_, _, _)
Seed(tasks, st, ids) ==
    IF ids = <<>> THEN st
    ELSE Seed(tasks,
              TakeSlots(st, Head(ids), RangeKeys(st.slots, tasks[Head(ids)])),
              Tail(ids))

\* the comparison of line 168 turned around: the claimant evicts its betters
HigherPriority(occupant, claimant) == occupant.priority > claimant.priority

\* line 168 with <= for <: a task of the same priority may be evicted too
\* (the claimant's own record is left out)
LowerOrEqualPriority(occupant, claimant) ==
    occupant.priority <= claimant.priority /\ occupant # claimant

\* line 168: the occupants a claimant may evict
LowerPriority(occupant, claimant) == occupant.priority < claimant.priority

\* the candidates without the sort of line 169: in slot order
CandidatesInSlotOrder(tasks, sl, id) ==
    LET occupied == SelectSeq(RangeKeys(sl, tasks[id]),
                     LAMBDA k : sl[k] # None
                                /\ LowerPriority(tasks[sl[k]], tasks[id]))
    IN [i \in 1..Len(occupied) |-> <<occupied[i], sl[occupied[i]]>>]

\* lines 161-171: the occupied slots of the claimant's working period held by
\* lower-priority tasks, by ascending occupant priority, as (slot, occupant)
Candidates(tasks, sl, id) ==
    LET occupied == SelectSeq(RangeKeys(sl, tasks[id]),
                     LAMBDA k : sl[k] # None
                                /\ LowerPriority(tasks[sl[k]], tasks[id]))
        sorted == StableSort(occupied,
                     [k \in DOMAIN sl |->
                         IF sl[k] \in DOMAIN tasks THEN tasks[sl[k]].priority ELSE 0])
    IN [i \in 1..Len(sorted) |-> <<sorted[i], sl[sorted[i]]>>]

\* lines 91-151: the working state when the preemption phase starts
GreedySeed(tasks, sl, order) ==
    Seed(tasks,
         FreeSurplus(tasks,
                     [slots |-> sl, wants |-> InitialWants(tasks, sl), done |-> TRUE],
                     Keys(sl)),
         SeedOrder(tasks, order))

\* lines 177-180: after the counters are updated, is the slot handed over?
HandsOver(wants) == wants # 0

\* the turn without line 175: the evicted task's counter is left alone
RECURSIVE EvictUncounted(_, _, _)
EvictUncounted(st, id, cands) ==
    IF cands = <<>> THEN st
    ELSE LET slot == Head(cands)[1]
             counted == [st EXCEPT !.done = FALSE, !.wants[id] = @ - 1]
         IN IF ~HandsOver(counted.wants[id]) THEN counted
            ELSE EvictUncounted([counted EXCEPT !.slots[slot] = id], id, Tail(cands))

\* lines 172-181: the claimant's turn over its candidates
RECURSIVE Evict(_, _, _)
Evict(st, id, cands) ==
    IF cands = <<>> THEN st
    ELSE LET slot == Head(cands)[1]
             candidate_task == Head(cands)[2]
             counted == [st EXCEPT !.done = FALSE,
                                   !.wants[candidate_task] = @ + 1,
                                   !.wants[id] = @ - 1]
         IN IF ~HandsOver(counted.wants[id]) THEN counted
            ELSE Evict([counted EXCEPT !.slots[slot] = id], id, Tail(cands))

\* lines 157-182: one pass over the tasks that still want slots
RECURSIVE Pass(_, _, _)
Pass(tasks, st, ids) ==
    IF ids = <<>> THEN st
    ELSE IF st.wants[Head(ids)] > 0
         THEN Pass(tasks,
                   Evict(st, Head(ids), Candidates(tasks, st.slots, Head(ids))),
                   Tail(ids))
         ELSE Pass(tasks, st, Tail(ids))

\* lines 154-187: passes until one evicts nothing
RECURSIVE HungerGames(_, _, _)
HungerGames(tasks, st, order) ==
    LET after == Pass(tasks, [st EXCEPT !.done = TRUE], order)
    IN IF after.done THEN after ELSE HungerGames(tasks, after, order)

\* lines 90-194: the slot map schedule() leaves and the set it returns
schedule(tasks, sl, order) ==
    LET start == [slots |-> sl, wants |-> InitialWants(tasks, sl), done |-> TRUE]
        freed == FreeSurplus(tasks, start, Keys(sl))
        seeded == Seed(tasks, freed, SeedOrder(tasks, order))
        final == HungerGames(tasks, seeded, order)
    IN [slots |-> final.slots,
        unsatisfied |-> {id \in DOMAIN tasks : final.wants[id] # 0}]

-----------------------------------------------------------------------------
(***************************************************************************)
(* scheduler.rs: Schedule::shuffle.  thread_rng is a free choice among the *)
(* candidates, so shuffle has a set of outcomes.                           *)
(***************************************************************************)

\* Iterator::filter where take_while should be: the keys inside the range,
\* also those that come after a key outside it
FilterIn(keys, lo, hi) == SelectSeq(keys, LAMBDA k : lo <= k /\ k < hi)

\* Iterator::take_while over a sequence of slot keys
RECURSIVE TakeWhileIn(_, _, _)
TakeWhileIn(keys, lo, hi) ==
    IF keys = <<>> THEN <<>>
    ELSE IF lo <= Head(keys) /\ Head(keys) < hi
         THEN <<Head(keys)>> \o TakeWhileIn(Tail(keys), lo, hi)
         ELSE <<>>

\* the filter of lines 216-220 left out: any later slot of the run qualifies
AcceptsAnything(tasks, occupant, l_time) == TRUE

\* lines 216-220: may the occupant of a later slot move to the time l_time?
Accepts(tasks, occupant, l_time) ==
    occupant = None \/ Contains(tasks[occupant], l_time)

\* lines 207-223: the later slots the slot at keys[index] may swap with
SwapPartners(tasks, sl, keys, index) ==
    LET l_time == keys[index]
        left == sl[l_time]
        later == SubSeq(keys, index + 1, Len(keys))
        run == IF left = None THEN later
               ELSE TakeWhileIn(later, tasks[left].start, tasks[left].end)
    IN {run[i] : i \in {j \in DOMAIN run : Accepts(tasks, sl[run[j]], l_time)}}

\* an assignment where the swap should be: the later slot's occupant is
\* copied to the earlier slot and stays where it was
SwapSlotsCopies(sl, a, b) == [sl EXCEPT ![a] = sl[b]]

\* std::mem::swap of two slots' contents
SwapSlots(sl, a, b) == [sl EXCEPT ![a] = sl[b], ![b] = sl[a]]

\* lines 224-243: the outcomes of the step at one index (index 0 of the
\* candidates is the slot itself: no swap)
ShuffleStep(tasks, sl, keys, index) ==
    {sl} \cup {SwapSlots(sl, keys[index], r) : r \in SwapPartners(tasks, sl, keys, index)}

\* lines 202-244: for index in 0..self.slots.len()
RECURSIVE ShuffleFrom(_, _, _, _)
ShuffleFrom(tasks, maps, keys, index) ==
    IF index > Len(keys) THEN maps
    ELSE ShuffleFrom(tasks,
                     UNION {ShuffleStep(tasks, sl, keys, index) : sl \in maps},
                     keys, index + 1)

\* every slot map one call of shuffle() may leave
shuffle(tasks, sl) == ShuffleFrom(tasks, {sl}, Keys(sl), 1)

\* self.tasks[..] panics when a slot holds an id that is not in the task table
NoStaleSlot(tasks, sl) == \A k \in DOMAIN sl : sl[k] = None \/ sl[k] \in DOMAIN tasks

-----------------------------------------------------------------------------
(***************************************************************************)
(* pomodoro.rs: the cadence state machine.  n is a u32; the subtractions   *)
(* break_interval - 1 and n - 1 are only reached with a positive operand   *)
(* when break_interval >= 1.                                               *)
(***************************************************************************)
Work(n) == [kind |-> "Work", n |-> n]
Break(n) == [kind |-> "Break", n |-> n]
LongBreak == [kind |-> "LongBreak", n |-> 0]

\* tick with LongBreak -> Work(break_interval): the decrement forgotten
tickNoDecrement(self, interval) ==
    IF self.kind = "Work" /\ self.n = 0 THEN LongBreak
    ELSE IF self.kind = "Work" THEN Break(self.n - 1)
    ELSE IF self.kind = "Break" THEN Work(self.n)
    ELSE Work(interval)

\* Pomodoro::tick
tick(self, interval) ==
    IF self.kind = "Work" /\ self.n = 0 THEN LongBreak
    ELSE IF self.kind = "Work" THEN Break(self.n - 1)
    ELSE IF self.kind = "Break" THEN Work(self.n)
    ELSE Work(interval - 1)

\* untick with the guard n >= break_interval: off by one
untickOffByOne(self, interval) ==
    IF self.kind = "LongBreak" THEN Work(0)
    ELSE IF self.kind = "Break" THEN Work(self.n + 1)
    ELSE IF self.n >= interval THEN LongBreak
    ELSE Break(self.n)

\* Pomodoro::untick
untick(self, interval) ==
    IF self.kind = "LongBreak" THEN Work(0)
    ELSE IF self.kind = "Break" THEN Work(self.n + 1)
    ELSE IF self.n >= interval - 1 THEN LongBreak
    ELSE Break(self.n)

-----------------------------------------------------------------------------
(***************************************************************************)
(* scheduler.rs: Schedule::remove_old_slots.                               *)
(***************************************************************************)
remove_old_slots(sl, before) ==
    [t \in {k \in DOMAIN sl : k + timeslice_length >= before} |-> sl[t]]

-----------------------------------------------------------------------------
(***************************************************************************)
(* db.rs: the Db.  Its configuration is that of Db::default, scaled to the *)
(* model's time unit: a day of DayLength units, of which the active        *)
(* period is [active_start, active_end).  Local time is UTC.               *)
(***************************************************************************)
DayLength == 12
active_start == 2
active_end == 8
short_break == 1
long_break == 2
default_break_interval == 2

\* the lengths with the two breaks exchanged
StateLengthBreaksSwapped(pomodoro) ==
    IF pomodoro.kind = "Work" THEN timeslice_length
    ELSE IF pomodoro.kind = "Break" THEN long_break
    ELSE short_break

\* lines 98-102: the length of a cadence state
StateLength(pomodoro) ==
    IF pomodoro.kind = "Work" THEN timeslice_length
    ELSE IF pomodoro.kind = "Break" THEN short_break
    ELSE long_break

\* local_cursor.with_time(..): the time of day of an instant
TimeOfDay(t) == t % DayLength

\* lines 119-123 without checked_add_days: the start of the active period
\* of the cursor's own day
SameDayActiveStart(cursor) == (cursor \div DayLength) * DayLength + active_start

\* lines 118-124: past the end of the active period, the cursor moves to the
\* start of the next day's active period
PastActiveEnd(cursor) == TimeOfDay(cursor) > active_end
NextActiveStart(cursor) == (cursor \div DayLength + 1) * DayLength + active_start

\* the earlier of two instants, where line 90 takes the later
LeastOf(a, b) == IF a <= b THEN a ELSE b

\* line 90: DateTime::max
MaxOf(a, b) == IF a >= b THEN a ELSE b

\* lines 96-127: the loop of create_slots_up_to; db holds the slot map and
\* the pomodoro states
RECURSIVE CreateLoop(_, _, _, _, _)
CreateLoop(db, cursor, pomodoro, interval, time) ==
    IF ~(cursor <= time) THEN db
    ELSE LET ticked == tick(pomodoro, interval)
             len == StateLength(ticked)
             pushed == Append(db.pomodoro_states,
                              [start |-> cursor, end |-> cursor + len, state |-> ticked])
             opened == IF ticked.kind = "Work"
                       THEN [t \in (DOMAIN db.slots) \cup {cursor} |->
                                IF t = cursor THEN None ELSE db.slots[t]]
                       ELSE db.slots
             advanced == cursor + len
         IN CreateLoop([slots |-> opened, pomodoro_states |-> pushed],
                       IF PastActiveEnd(advanced) THEN NextActiveStart(advanced)
                                                  ELSE advanced,
                       IF PastActiveEnd(advanced) THEN LongBreak ELSE ticked,
                       interval, time)

\* lines 84-128: Db::create_slots_up_to.  DateTime::default() is the epoch, 0.
create_slots_up_to(db, clock, interval, time) ==
    LET states == db.pomodoro_states
        cursor == MaxOf(IF states = <<>> THEN 0 ELSE states[Len(states)].end, clock)
        pomodoro == IF states = <<>> THEN LongBreak ELSE states[Len(states)].state
    IN CreateLoop(db, cursor, pomodoro, interval, time)

\* lines 69-74: the latest end of a working period, or now
LatestEnd(tasks, clock) ==
    IF DOMAIN tasks = {} THEN clock
    ELSE CHOOSE e \in {tasks[id].end : id \in DOMAIN tasks} :
            \A id \in DOMAIN tasks : tasks[id].end <= e

\* lines 77-78: sort by start, then drop the states that have ended
LiveStates(states, clock) ==
    SelectSeq(StableSort(states, [x \in {states[i] : i \in DOMAIN states} |-> x.start]),
              LAMBDA x : x.end > clock)

\* lines 140-144: empty the slots that hold id
ClearSlots(sl, id) == [k \in DOMAIN sl |-> IF sl[k] = id THEN None ELSE sl[k]]

\* HashMap::insert and HashMap::remove on the task table
TableInsert(tasks, id, task) ==
    [i \in (DOMAIN tasks) \cup {id} |-> IF i = id THEN task ELSE tasks[i]]
TableRemove(tasks, id) == [i \in (DOMAIN tasks) \ {id} |-> tasks[i]]

-----------------------------------------------------------------------------
(***************************************************************************)
(* db.rs: Db::shuffle_maximizing, with two of the goals of menu.rs.  A     *)
(* score is an f64 that the goals obtain as a quotient of integers; it is  *)
(* kept as the pair (num, den), and den = 0 is 0.0 / 0.0, not-a-number.    *)
(***************************************************************************)
RECURSIVE SumOf(_)
SumOf(seq) == IF seq = <<>> THEN 0 ELSE Head(seq) + SumOf(Tail(seq))

\* menu.rs lines 195-205: the mean time from now to the empty slots
early_riser(sl, clock) ==
    LET ttb == SelectSeq(Keys(sl), LAMBDA t : sl[t] = None)
    IN [num |-> SumOf([i \in DOMAIN ttb |-> ttb[i] - clock]), den |-> Len(ttb)]

\* menu.rs lines 268-270: the strategies Early Riser and Problem for Future Me
Goals == {"early_riser", "problem_for_future_me"}
Score(goal, sl, clock) ==
    IF goal = "early_riser" THEN early_riser(sl, clock)
    ELSE [num |-> 0 - early_riser(sl, clock).num, den |-> early_riser(sl, clock).den]

\* f64 comparisons; every comparison with not-a-number is false
IsNumber(x) == x.den # 0
Greater(x, y) == IsNumber(x) /\ IsNumber(y) /\ x.num * y.den > y.num * x.den
AtLeast(x, y) == IsNumber(x) /\ IsNumber(y) /\ x.num * y.den >= y.num * x.den

\* the test of line 164 with >= for >: a tie replaces the committed schedule
ImprovesOrTies(score, score_to_beat) == AtLeast(score, score_to_beat)

\* the test of line 164 turned around: the worse trial is committed
ImprovesReversed(score, score_to_beat) == Greater(score_to_beat, score)

\* the test of line 164 written as !(score < score_to_beat): a score that
\* does not compare counts as an improvement
ImprovesUnlessWorse(score, score_to_beat) == ~Greater(score_to_beat, score)

\* db.rs line 164: score > score_to_beat
Improves(score, score_to_beat) == Greater(score, score_to_beat)

\* db.rs lines 161-168: the outcomes of one trial on the run so far.  Each
\* trial is logged: the committed schedule and score_to_beat before it, the
\* shuffled copy and its score, and the committed schedule after it.
OneTrial(tasks, run, goal, clock) ==
    {LET score == Score(goal, copy, clock)
         wins == Improves(score, run.score_to_beat)
         after == IF wins THEN copy ELSE run.schedule
     IN [schedule |-> after,
         score_to_beat |-> IF wins THEN score ELSE run.score_to_beat,
         trials |-> Append(run.trials,
                       [committed |-> run.schedule, to_beat |-> run.score_to_beat,
                        copy |-> copy, score |-> score, after |-> after])]
       : copy \in shuffle(tasks, run.schedule)}

\* db.rs lines 160-169: the loop, for a time limit that allows n trials
RECURSIVE TrialRuns(_, _, _, _, _)
TrialRuns(tasks, runs, goal, clock, n) ==
    IF n = 0 THEN runs
    ELSE TrialRuns(tasks,
                   UNION {OneTrial(tasks, run, goal, clock) : run \in runs},
                   goal, clock, n - 1)

\* db.rs lines 151-172: the runs of shuffle_maximizing(goal, time_limit)
shuffle_maximizing(tasks, sl, goal, clock, n) ==
    TrialRuns(tasks,
              {[schedule |-> sl, score_to_beat |-> Score(goal, sl, clock),
                trials |-> <<>>]},
              goal, clock, n)

-----------------------------------------------------------------------------
(***************************************************************************)
(* The state.  tasks and slots are the fields of Schedule; last records    *)
(* the operation that led to the state: its name, the slot map it started  *)
(* from and the set it returned.  timer is a Pomodoro driven by            *)
(* break_interval, and history the states it went through, as in the       *)
(* tests of pomodoro.rs.  pomodoro_states and break_interval are fields of  *)
(* Db, and now is the clock that Utc::now() reads.                         *)
(***************************************************************************)
VARIABLES tasks, slots, last, timer, break_interval, history, phase,
          pomodoro_states, now

schedVars == <<tasks, slots, last>>
pomVars == <<timer, history, phase>>
dbVars == <<pomodoro_states, now>>
vars == <<tasks, slots, last, timer, break_interval, history, phase,
          pomodoro_states, now>>

\* the cadence machine at rest: Pomodoro::default() and Db::default()
PomodoroIdle ==
    /\ timer = LongBreak
    /\ history = <<>>
    /\ phase = "tick"

\* no Db around the Schedule
DbIdle ==
    /\ break_interval = default_break_interval
    /\ pomodoro_states = <<>>
    /\ now = 0

Called(op, pre, ret) == [op |-> op, pre |-> pre, ret |-> ret]

-----------------------------------------------------------------------------
(***************************************************************************)
(* Spec: the Schedule of scheduler.rs as its tests build it: a task table, *)
(* a slot map laid out by layout_slots, then schedule() and shuffle().     *)
(***************************************************************************)

\* the end of the laid out range
Horizon == MaxSlots * timeslice_length

\* working periods start and end on slice boundaries
Periods == {w \in (0..MaxSlots) \X (0..MaxSlots) : w[1] < w[2]}

\* a task needs one slice, or one slice and a bit (two slices)
Lengths == {timeslice_length, timeslice_length + 1}

TaskPool ==
    {[priority |-> p,
      start |-> w[1] * timeslice_length,
      end |-> w[2] * timeslice_length,
      estimated_length |-> l] : p \in 1..MaxPrio, w \in Periods, l \in Lengths}

\* a total order on tasks, used to list task tables up to renaming of ids
TaskRank(t) ==
    ((t.priority * (Horizon + 1) + t.start) * (Horizon + 1) + t.end)
        * (2 * timeslice_length) + t.estimated_length

\* Ids are opaque HashMap keys that the scheduler never compares, so the
\* tables are listed up to renaming: ids 1..n, tasks in rank order.
TaskTables ==
    UNION {{t \in [1..n -> TaskPool] :
              \A i \in 1..(n - 1) : TaskRank(t[i]) <= TaskRank(t[i + 1])} :
           n \in 0..MaxTasks}

\* scheduler.rs lines 55-61: layout_slots(range, interval) on an empty map
layout_slots(sl, lo, hi, interval) ==
    LET laid == {t \in lo..(hi - 1) : (t - lo) % interval = 0}
    IN [t \in (DOMAIN sl) \cup laid |-> IF t \in laid THEN None ELSE sl[t]]

Init ==
    /\ tasks \in TaskTables
    /\ slots = layout_slots(<<>>, 0, Horizon, timeslice_length)
    /\ last = Called("new", slots, {})
    /\ PomodoroIdle
    /\ DbIdle

\* schedule.schedule()
Schedule ==
    \E order \in Orders(DOMAIN tasks) :
        LET r == schedule(tasks, slots, order)
        IN /\ slots' = r.slots
           /\ last' = Called("schedule", slots, r.unsatisfied)
           /\ UNCHANGED <<tasks, break_interval, pomVars, dbVars>>

\* schedule.shuffle()
Shuffle ==
    /\ NoStaleSlot(tasks, slots)
    /\ \E sl \in shuffle(tasks, slots) :
        /\ slots' = sl
        /\ last' = Called("shuffle", slots, {})
        /\ UNCHANGED <<tasks, break_interval, pomVars, dbVars>>

\* schedule.tasks.remove(id), as a caller does through the public field
TasksRemove ==
    \E id \in DOMAIN tasks :
        /\ tasks' = [i \in (DOMAIN tasks) \ {id} |-> tasks[i]]
        /\ last' = Called("tasks.remove", slots, {})
        /\ UNCHANGED <<slots, break_interval, pomVars, dbVars>>

Next == Schedule \/ Shuffle \/ TasksRemove

Spec == Init /\ [][Next]_vars

-----------------------------------------------------------------------------
(***************************************************************************)
(* SpecRanked: a Schedule built as the tests possible and impossible build *)
(* theirs, task i with priority i, over a table of MaxRanked tasks.        *)
(***************************************************************************)
MaxRanked == 4       \* the tasks of a ranked table

\* the working periods of the ranked tasks
RankedPeriods == {<<0, 2>>, <<0, 3>>, <<1, 3>>}

RankedTables ==
    {t \in [1..MaxRanked ->
               [priority : 1..MaxRanked,
                start : {w[1] * timeslice_length : w \in RankedPeriods},
                end : {w[2] * timeslice_length : w \in RankedPeriods},
                estimated_length : Lengths]] :
        \A i \in 1..MaxRanked :
            /\ t[i].priority = i
            /\ \E w \in RankedPeriods :
                   /\ t[i].start = w[1] * timeslice_length
                   /\ t[i].end = w[2] * timeslice_length}

InitRanked ==
    /\ tasks \in RankedTables
    /\ slots = layout_slots(<<>>, 0, Horizon, timeslice_length)
    /\ last = Called("new", slots, {})
    /\ PomodoroIdle
    /\ DbIdle

\* schedule.schedule() on a ranked table
ScheduleRanked == Schedule

NextRanked == ScheduleRanked

SpecRanked == InitRanked /\ [][NextRanked]_vars

-----------------------------------------------------------------------------
(***************************************************************************)
(* SpecStarvation: the Schedule of the test check_starvation.  Times are   *)
(* counted in quarters of an hour; lengths in half time slices, rounded    *)
(* up, which leaves div_ceil as it is: one hour is 2.4 slices of 25        *)
(* minutes (5 halves), thirteen hours are 31.2 slices (63 halves).  Around *)
(* the test's two lengths the specification lets both lengths vary.        *)
(***************************************************************************)
MaxLengthA == 8      \* task A's length is 1..MaxLengthA
MaxLengthB == 90     \* task B's length is 1..MaxLengthB

starvation_interval == 2    \* 30 minutes, the interval of layout_slots
Hour == 2 * starvation_interval
Day == 24 * Hour

\* the tasks "0" (A) and "1" (B) of the test, as ids 1 and 2
StarvationTable(a, b) ==
    <<[priority |-> 1, start |-> 4 * Hour, end |-> 6 * Hour, estimated_length |-> a],
      [priority |-> 9, start |-> 2 * Hour, end |-> 23 * Hour, estimated_length |-> b]>>

\* the lengths of the test: 60 * 60 s and 13 * 60 * 60 s
StarvationTasks == StarvationTable(5, 63)

InitStarvation ==
    /\ tasks \in {StarvationTable(a, b) : a \in 1..MaxLengthA, b \in 1..MaxLengthB}
    /\ slots = layout_slots(<<>>, 0, Day, starvation_interval)
    /\ last = Called("new", slots, {})
    /\ PomodoroIdle
    /\ DbIdle

\* schedule.schedule() on the starvation fixture
ScheduleStarvation == Schedule

NextStarvation == ScheduleStarvation

SpecStarvation == InitStarvation /\ [][NextStarvation]_vars

-----------------------------------------------------------------------------
(***************************************************************************)
(* SpecAnyMap: schedule() on a Schedule whose public fields tasks and      *)
(* slots were filled in by a caller: any small task table, working periods *)
(* that may be empty (start = end), and any slot contents, ids that are    *)
(* not in the table included.                                              *)
(***************************************************************************)
MaxAnyTasks == 2     \* the table holds at most MaxAnyTasks tasks

\* working periods with start <= end, on slice boundaries
AnyPeriods == {w \in (0..MaxSlots) \X (0..MaxSlots) : w[1] <= w[2]}

AnyPool ==
    {[priority |-> p,
      start |-> w[1] * timeslice_length,
      end |-> w[2] * timeslice_length,
      estimated_length |-> l] : p \in 1..MaxAnyTasks, w \in AnyPeriods, l \in Lengths}

AnyTables ==
    UNION {{t \in [1..n -> AnyPool] :
              \A i \in 1..(n - 1) : TaskRank(t[i]) <= TaskRank(t[i + 1])} :
           n \in 0..MaxAnyTasks}

\* every content of the laid out slots; the id MaxAnyTasks + 1 is in no table
AnyMaps ==
    [DOMAIN layout_slots(<<>>, 0, Horizon, timeslice_length)
        -> {None} \cup (1..(MaxAnyTasks + 1))]

InitAnyMap ==
    /\ tasks \in AnyTables
    /\ slots \in AnyMaps
    /\ last = Called("new", slots, {})
    /\ PomodoroIdle
    /\ DbIdle

\* schedule.schedule() on whatever the fields hold
ScheduleAnyMap == Schedule

NextAnyMap == ScheduleAnyMap

SpecAnyMap == InitAnyMap /\ [][NextAnyMap]_vars

-----------------------------------------------------------------------------
(***************************************************************************)
(* SpecPasses: schedule() pass by pass.  BeginSchedule runs the first two  *)
(* phases; every iteration of the loop of lines 154-187 is a step of its   *)
(* own, HungerPass when it evicted something and the loop goes on,         *)
(* FinalPass when it evicted nothing and schedule() returns.  last holds   *)
(* the wants counters and the HashMap order of the call in progress.  The  *)
(* loop is sequential code that keeps running: weak fairness of its steps. *)
(***************************************************************************)
MaxPasses == 3       \* evicting passes are counted up to MaxPasses

\* the working periods of the ranked tables, and one that holds a single slot
PassPeriods == RankedPeriods \cup {<<1, 2>>}

\* tasks of any priority over these working periods
PassPool ==
    {t \in TaskPool :
        \E w \in PassPeriods :
            /\ t.start = w[1] * timeslice_length
            /\ t.end = w[2] * timeslice_length}

PassTables == {t \in TaskTables : \A i \in DOMAIN t : t[i] \in PassPool}

InitPasses ==
    /\ tasks \in PassTables
    /\ slots = layout_slots(<<>>, 0, Horizon, timeslice_length)
    /\ last = [op |-> "new", pre |-> slots, ret |-> {},
               wants |-> InitialWants(tasks, slots), order |-> <<>>, passes |-> 0]
    /\ PomodoroIdle
    /\ DbIdle

\* the loop of lines 154-187 is running
InLoop == last.op \in {"seeded", "pass"}

\* one iteration of the loop on the state of the call in progress
OnePass ==
    Pass(tasks, [slots |-> slots, wants |-> last.wants, done |-> TRUE], last.order)

\* lines 91-151: schedule() up to the start of the loop
BeginSchedule ==
    /\ ~InLoop
    /\ \E order \in Orders(DOMAIN tasks) :
        LET seeded == GreedySeed(tasks, slots, order)
        IN /\ slots' = seeded.slots
           /\ last' = [op |-> "seeded", pre |-> slots, ret |-> {},
                       wants |-> seeded.wants, order |-> order, passes |-> 0]
    /\ UNCHANGED <<tasks, break_interval, pomVars, dbVars>>

\* lines 154-186: an iteration that evicted something; done is false
HungerPass ==
    /\ InLoop
    /\ ~OnePass.done
    /\ slots' = OnePass.slots
    /\ last' = [last EXCEPT !.op = "pass", !.wants = OnePass.wants,
                            !.passes = IF @ < MaxPasses THEN @ + 1 ELSE @]
    /\ UNCHANGED <<tasks, break_interval, pomVars, dbVars>>

\* lines 154-193: an iteration that evicted nothing; break, and the return
FinalPass ==
    /\ InLoop
    /\ OnePass.done
    /\ slots' = OnePass.slots
    /\ last' = [last EXCEPT !.op = "returned", !.wants = OnePass.wants,
                            !.ret = {id \in DOMAIN tasks : OnePass.wants[id] # 0}]
    /\ UNCHANGED <<tasks, break_interval, pomVars, dbVars>>

NextPasses == BeginSchedule \/ HungerPass \/ FinalPass

SpecPasses ==
    InitPasses /\ [][NextPasses]_vars /\ WF_vars(HungerPass) /\ WF_vars(FinalPass)

-----------------------------------------------------------------------------
(***************************************************************************)
(* SpecTurns: one call of schedule() on empty slots, turn by turn.  After  *)
(* the first two phases every iteration of the for loop of lines 157-182   *)
(* is a step: Turn for a task that wants slots, SkipTurn for a task the    *)
(* filter of line 159 passes over; at the end of a pass the loop starts    *)
(* the next pass or schedule() returns.  last holds the call in progress:  *)
(* the wants counters, the HashMap order, the position in it, the flag     *)
(* done, and for a turn the claimant and the slot map the turn started     *)
(* from.                                                                   *)
(***************************************************************************)
InitTurns ==
    /\ tasks \in PassTables
    /\ slots = layout_slots(<<>>, 0, Horizon, timeslice_length)
    /\ last = [op |-> "new", pre |-> slots, ret |-> {},
               wants |-> InitialWants(tasks, slots), order |-> <<>>,
               pos |-> 0, done |-> TRUE, claimant |-> None, from |-> slots]
    /\ PomodoroIdle
    /\ DbIdle

\* the loop of lines 154-187 is running
InTurns == last.op \in {"seeded", "turn", "skip", "pass"}

\* the task the for loop of line 157 visits next
NextInOrder == last.order[last.pos + 1]

\* lines 91-155: schedule() up to the first pass
BeginTurns ==
    /\ last.op = "new"
    /\ \E order \in Orders(DOMAIN tasks) :
        LET seeded == GreedySeed(tasks, slots, order)
        IN /\ slots' = seeded.slots
           /\ last' = [last EXCEPT !.op = "seeded", !.wants = seeded.wants,
                                   !.order = order, !.pos = 0, !.done = TRUE]
    /\ UNCHANGED <<tasks, break_interval, pomVars, dbVars>>

\* lines 157-181: the turn of a task that wants slots
Turn ==
    /\ InTurns
    /\ last.pos < Len(last.order)
    /\ last.wants[NextInOrder] > 0
    /\ LET after == Evict([slots |-> slots, wants |-> last.wants, done |-> last.done],
                          NextInOrder, Candidates(tasks, slots, NextInOrder))
       IN /\ slots' = after.slots
          /\ last' = [last EXCEPT !.op = "turn", !.wants = after.wants,
                                  !.done = after.done, !.pos = @ + 1,
                                  !.claimant = NextInOrder, !.from = slots]
    /\ UNCHANGED <<tasks, break_interval, pomVars, dbVars>>

\* line 159: a task that wants nothing is passed over
SkipTurn ==
    /\ InTurns
    /\ last.pos < Len(last.order)
    /\ ~(last.wants[NextInOrder] > 0)
    /\ last' = [last EXCEPT !.op = "skip", !.pos = @ + 1]
    /\ UNCHANGED <<tasks, slots, break_interval, pomVars, dbVars>>

\* lines 154-155, 184: the pass evicted something; the loop starts over
NextPass ==
    /\ InTurns
    /\ last.pos = Len(last.order)
    /\ ~last.done
    /\ last' = [last EXCEPT !.op = "pass", !.pos = 0, !.done = TRUE]
    /\ UNCHANGED <<tasks, slots, break_interval, pomVars, dbVars>>

\* lines 184-193: the pass evicted nothing; break, and the return
ReturnUnsatisfied ==
    /\ InTurns
    /\ last.pos = Len(last.order)
    /\ last.done
    /\ last' = [last EXCEPT !.op = "returned",
                            !.ret = {id \in DOMAIN tasks : last.wants[id] # 0}]
    /\ UNCHANGED <<tasks, slots, break_interval, pomVars, dbVars>>

NextTurns == BeginTurns \/ Turn \/ SkipTurn \/ NextPass \/ ReturnUnsatisfied

SpecTurns == InitTurns /\ [][NextTurns]_vars

-----------------------------------------------------------------------------
(***************************************************************************)
(* SpecSwaps: one call of shuffle(), index by index, on a Schedule whose   *)
(* public fields a caller filled in: any table of up to MaxSwapTasks       *)
(* tasks and any slot contents, occupants outside their working period     *)
(* included.  Every iteration of the for loop of lines 202-244 is a step:  *)
(* KeepStep when nothing is swapped (fewer than two candidates, or the     *)
(* slot itself drawn), SwapStep when a later slot is drawn.  last holds    *)
(* the index of the iteration, the slot map it started from and the later  *)
(* slot drawn.                                                             *)
(***************************************************************************)
MaxSwapTasks == 2    \* the table holds at most MaxSwapTasks tasks

\* shuffle() reads the working periods only
SwapPool ==
    {[priority |-> 1,
      start |-> w[1] * timeslice_length,
      end |-> w[2] * timeslice_length,
      estimated_length |-> timeslice_length] : w \in AnyPeriods}

SwapTables ==
    UNION {{t \in [1..n -> SwapPool] :
              \A i \in 1..(n - 1) : TaskRank(t[i]) <= TaskRank(t[i + 1])} :
           n \in 0..MaxSwapTasks}

InitSwaps ==
    /\ tasks \in SwapTables
    /\ slots \in [DOMAIN layout_slots(<<>>, 0, Horizon, timeslice_length)
                     -> {None} \cup (1..(MaxSwapTasks + 1))]
    /\ last = [op |-> "new", pre |-> slots, ret |-> {},
               index |-> 0, from |-> slots, right |-> 0]
    /\ PomodoroIdle
    /\ DbIdle

\* the for loop of lines 202-244 is running
Shuffling == last.op \in {"shuffling", "keep", "swap"}

\* line 202: the call; self.tasks[..] panics on an id that is not in the table
BeginShuffle ==
    /\ last.op = "new"
    /\ NoStaleSlot(tasks, slots)
    /\ last' = [last EXCEPT !.op = "shuffling", !.index = 0]
    /\ UNCHANGED <<tasks, slots, break_interval, pomVars, dbVars>>

\* lines 224-227 and 236: the iteration swaps nothing
KeepStep ==
    /\ Shuffling
    /\ last.index < Cardinality(DOMAIN slots)
    /\ last' = [last EXCEPT !.op = "keep", !.index = @ + 1, !.from = slots]
    /\ UNCHANGED <<tasks, slots, break_interval, pomVars, dbVars>>

\* lines 229-243: the iteration swaps the slot with a later slot drawn among
\* its candidates
SwapStep ==
    /\ Shuffling
    /\ last.index < Cardinality(DOMAIN slots)
    /\ \E right \in SwapPartners(tasks, slots, Keys(slots), last.index + 1) :
        /\ slots' = SwapSlots(slots, Keys(slots)[last.index + 1], right)
        /\ last' = [last EXCEPT !.op = "swap", !.index = @ + 1,
                                !.from = slots, !.right = right]
    /\ UNCHANGED <<tasks, break_interval, pomVars, dbVars>>

\* the loop has run over every index; shuffle() returns
EndShuffle ==
    /\ Shuffling
    /\ last.index = Cardinality(DOMAIN slots)
    /\ last' = [last EXCEPT !.op = "shuffle"]
    /\ UNCHANGED <<tasks, slots, break_interval, pomVars, dbVars>>

NextSwaps == BeginShuffle \/ KeepStep \/ SwapStep \/ EndShuffle

SpecSwaps == InitSwaps /\ [][NextSwaps]_vars

-----------------------------------------------------------------------------
(***************************************************************************)
(* SpecPomodoro: the cadence machine alone, driven as the tests of         *)
(* pomodoro.rs drive it: some ticks from the default state, then unticks.  *)
(***************************************************************************)
MaxBreakInterval == 5    \* break_interval ranges over 1..MaxBreakInterval
MaxTicks == 17           \* at most MaxTicks ticks are taken

InitPomodoro ==
    /\ tasks = <<>>
    /\ slots = <<>>
    /\ last = Called("new", slots, {})
    /\ timer = LongBreak
    /\ break_interval \in 1..MaxBreakInterval
    /\ history = <<>>
    /\ phase = "tick"
    /\ pomodoro_states = <<>>
    /\ now = 0

\* timer = timer.tick(break_interval); history.push(timer)
Tick ==
    /\ phase = "tick"
    /\ Len(history) < MaxTicks
    /\ timer' = tick(timer, break_interval)
    /\ history' = Append(history, timer')
    /\ UNCHANGED <<schedVars, break_interval, phase, dbVars>>

\* timer = timer.untick(break_interval), undoing the last tick
Untick ==
    /\ history # <<>>
    /\ timer' = untick(timer, break_interval)
    /\ history' = SubSeq(history, 1, Len(history) - 1)
    /\ phase' = "untick"
    /\ UNCHANGED <<schedVars, break_interval, dbVars>>

NextPomodoro == Tick \/ Untick

SpecPomodoro == InitPomodoro /\ [][NextPomodoro]_vars

-----------------------------------------------------------------------------
(***************************************************************************)
(* SpecDb: the Db of db.rs, from Db::default(), under its public methods   *)
(* and the passing of time.                                                *)
(***************************************************************************)
MaxDbTasks == 2      \* task ids of SpecDb are 1..MaxDbTasks
MaxClock == 2        \* the clock runs from 0 to MaxClock
MaxTrials == 2       \* a time limit allows at most MaxTrials trials

\* the working periods of the tasks given to insert_task
DbPeriods == {<<0, 4>>, <<3, active_end>>}

\* CTasks; name and remote_id play no part in scheduling
DbTasks ==
    {[priority |-> p, start |-> w[1], end |-> w[2],
      estimated_length |-> l, worked_length |-> 0] :
        p \in 1..2, w \in DbPeriods, l \in Lengths}

InitDb ==
    /\ tasks = <<>>
    /\ slots = <<>>
    /\ last = Called("new", slots, {})
    /\ PomodoroIdle
    /\ DbIdle

\* db.insert_task(id, task), the task drawn from pool
InsertTaskFrom(pool) ==
    \E id \in 1..MaxDbTasks, task \in pool :
        LET made == create_slots_up_to(
                        [slots |-> slots, pomodoro_states |-> pomodoro_states],
                        now, break_interval, task.end)
            table == TableInsert(tasks, id, task)
        IN \E order \in Orders(DOMAIN table) :
            LET r == schedule(table, made.slots, order)
            IN /\ tasks' = table
               /\ slots' = r.slots
               /\ pomodoro_states' = made.pomodoro_states
               /\ last' = Called("insert_task", made.slots, r.unsatisfied)
               /\ UNCHANGED <<break_interval, now, pomVars>>

\* db.remove_task(id)
RemoveTask ==
    \E id \in 1..MaxDbTasks :
        LET cleared == ClearSlots(slots, id)
            table == TableRemove(tasks, id)
        IN \E order \in Orders(DOMAIN table) :
            LET r == schedule(table, cleared, order)
            IN /\ tasks' = table
               /\ slots' = r.slots
               /\ last' = Called("remove_task", cleared, r.unsatisfied)
               /\ UNCHANGED <<break_interval, pomVars, dbVars>>

\* db.housekeeping()
Housekeeping ==
    LET made == create_slots_up_to(
                    [slots |-> slots, pomodoro_states |-> pomodoro_states],
                    now, break_interval, LatestEnd(tasks, now))
        kept == remove_old_slots(made.slots, now)
    IN \E order \in Orders(DOMAIN tasks) :
        LET r == schedule(tasks, kept, order)
        IN /\ slots' = r.slots
           /\ pomodoro_states' = LiveStates(made.pomodoro_states, now)
           /\ last' = Called("housekeeping", kept, r.unsatisfied)
           /\ UNCHANGED <<tasks, break_interval, now, pomVars>>

\* db.shuffle_maximizing(goal, time_limit)
ShuffleMaximizing ==
    \E goal \in Goals, n \in 0..MaxTrials :
        \E run \in shuffle_maximizing(tasks, slots, goal, now, n) :
            /\ slots' = run.schedule
            /\ last' = [op |-> "shuffle_maximizing", pre |-> slots,
                        ret |-> <<run.score_to_beat, n>>,
                        goal |-> goal, trials |-> run.trials]
            /\ UNCHANGED <<tasks, break_interval, pomVars, dbVars>>

\* time passes
ClockTick ==
    /\ now < MaxClock
    /\ now' = now + 1
    /\ last' = Called("clock", slots, {})
    /\ UNCHANGED <<tasks, slots, break_interval, pomodoro_states, pomVars>>

InsertTask == InsertTaskFrom(DbTasks)

NextDb == InsertTask \/ RemoveTask \/ Housekeeping \/ ClockTick

SpecDb == InitDb /\ [][NextDb]_vars

-----------------------------------------------------------------------------
(***************************************************************************)
(* SpecOptimize: a Db that is filled with a few tasks and then optimized   *)
(* by shuffle_maximizing.                                                  *)
(***************************************************************************)
OptTasks ==
    {[priority |-> 1, start |-> w[1], end |-> w[2],
      estimated_length |-> l, worked_length |-> 0] :
        w \in {<<0, active_end>>, <<3, active_end>>}, l \in Lengths}

InsertOptTask == InsertTaskFrom(OptTasks)

NextOptimize == InsertOptTask \/ ShuffleMaximizing

SpecOptimize == InitDb /\ [][NextOptimize]_vars

-----------------------------------------------------------------------------
(***************************************************************************)
(* SpecCreate: Db::create_slots_up_to iteration by iteration, on a Db with *)
(* any break_interval >= 1 and any time of day as now.  last holds the     *)
(* call in progress: its cursor and its target; timer is the local         *)
(* variable pomodoro.  The loop is sequential code: weak fairness.         *)
(***************************************************************************)
MaxTarget == 26      \* create_slots_up_to is called with a time in 0..MaxTarget

InitCreate ==
    /\ tasks = <<>>
    /\ slots = <<>>
    /\ pomodoro_states = <<>>
    /\ break_interval \in 1..MaxBreakInterval
    /\ now \in 0..(DayLength - 1)
    /\ last = [op |-> "new", pre |-> slots, ret |-> {}, cursor |-> 0, time |-> 0]
    /\ PomodoroIdle

\* the loop of lines 96-127 is running
Creating == last.op \in {"create", "iteration"}

\* lines 85-95: the call, up to the loop
BeginCreate ==
    /\ ~Creating
    /\ \E time \in 0..MaxTarget :
        last' = [op |-> "create", pre |-> slots, ret |-> {}, time |-> time,
                 cursor |-> MaxOf(IF pomodoro_states = <<>> THEN 0
                                  ELSE pomodoro_states[Len(pomodoro_states)].end,
                                  now)]
    /\ timer' = IF pomodoro_states = <<>> THEN LongBreak
                ELSE pomodoro_states[Len(pomodoro_states)].state
    /\ UNCHANGED <<tasks, slots, break_interval, history, phase, dbVars>>

\* lines 96-127: one iteration of the loop
CreateIteration ==
    /\ Creating
    /\ last.cursor <= last.time
    /\ LET ticked == tick(timer, break_interval)
           advanced == last.cursor + StateLength(ticked)
       IN /\ pomodoro_states' =
                 Append(pomodoro_states,
                        [start |-> last.cursor, end |-> advanced, state |-> ticked])
          /\ slots' = IF ticked.kind = "Work"
                      THEN [t \in (DOMAIN slots) \cup {last.cursor} |->
                               IF t = last.cursor THEN None ELSE slots[t]]
                      ELSE slots
          /\ last' = [last EXCEPT
                         !.op = "iteration",
                         !.cursor = IF PastActiveEnd(advanced)
                                    THEN NextActiveStart(advanced) ELSE advanced]
          /\ timer' = IF PastActiveEnd(advanced) THEN LongBreak ELSE ticked
    /\ UNCHANGED <<tasks, break_interval, history, phase, now>>

\* line 96: the loop condition fails and the call returns
EndCreate ==
    /\ Creating
    /\ ~(last.cursor <= last.time)
    /\ last' = [last EXCEPT !.op = "created"]
    /\ UNCHANGED <<tasks, slots, timer, break_interval, history, phase, dbVars>>

NextCreate == BeginCreate \/ CreateIteration \/ EndCreate

SpecCreate ==
    InitCreate /\ [][NextCreate]_vars
        /\ WF_vars(CreateIteration) /\ WF_vars(EndCreate)

-----------------------------------------------------------------------------
(***************************************************************************)
(* SpecTimeline: calls of Db::create_slots_up_to on a Db with a small      *)
(* break_interval while time passes, each call taken whole.                *)
(***************************************************************************)
MaxTimelineClock == 13     \* the clock runs from 0 to MaxTimelineClock
MaxTimelineTarget == 15    \* create_slots_up_to is called with a time in 0..MaxTimelineTarget
MaxTimelineInterval == 2   \* break_interval is in 1..MaxTimelineInterval

InitTimeline ==
    /\ tasks = <<>>
    /\ slots = <<>>
    /\ pomodoro_states = <<>>
    /\ break_interval \in 1..MaxTimelineInterval
    /\ now = 0
    /\ last = Called("new", slots, {})
    /\ PomodoroIdle

\* db.create_slots_up_to(time)
CreateSlotsUpTo ==
    \E time \in 0..MaxTimelineTarget :
        LET made == create_slots_up_to(
                        [slots |-> slots, pomodoro_states |-> pomodoro_states],
                        now, break_interval, time)
        IN /\ slots' = made.slots
           /\ pomodoro_states' = made.pomodoro_states
           /\ last' = Called("create_slots_up_to", slots, {time})
           /\ UNCHANGED <<tasks, break_interval, now, pomVars>>

\* time passes between two calls
TimePasses ==
    /\ now < MaxTimelineClock
    /\ now' = now + 1
    /\ last' = Called("clock", slots, {})
    /\ UNCHANGED <<tasks, slots, break_interval, pomodoro_states, pomVars>>

NextTimeline == CreateSlotsUpTo \/ TimePasses

SpecTimeline == InitTimeline /\ [][NextTimeline]_vars

-----------------------------------------------------------------------------
(***************************************************************************)
(* Properties.                                                             *)
(***************************************************************************)

\* the number of slices a task of the table needs
Required(id) == divided_into(tasks[id], timeslice_length)

\* the operations that end with a call of schedule()
Scheduling == {"schedule", "insert_task", "remove_task", "housekeeping"}

\* C1: when schedule() starts from a slot map whose occupied slots all lie
\* inside their occupants' working periods (the all-empty map included),
\* every slot occupied after it returns has start <= t < end for the working
\* period of its occupant.
ScheduleKeepsSlotsInPeriod ==
    (last.op \in Scheduling /\ check_times(tasks, last.pre))
        => check_times(tasks, slots)

\* C1 witness: schedule() ran on a map that was already occupied and handed
\* an occupied slot to another task
ScheduleChangedOccupiedMap ==
    /\ last.op \in Scheduling
    /\ check_times(tasks, last.pre)
    /\ \E k \in DOMAIN slots :
           last.pre[k] # None /\ slots[k] # None /\ slots[k] # last.pre[k]

\* C2: after schedule() no task of the table holds more slots than
\* divided_into(timeslice_length), whatever the table, the priorities, the
\* order of the preemption turns and the slots' prior contents.
NoTaskHoldsMoreThanRequired ==
    last.op \in Scheduling =>
        \A id \in DOMAIN tasks : Held(slots, id) <= Required(id)

\* C3: the set schedule() returns is the set of tasks that hold fewer slots
\* than they need once it has returned, that is unsatisfied_tasks().
ReturnedSetIsUnsatisfiedTasks ==
    last.op = "schedule" => last.ret = unsatisfied_tasks(tasks, slots)

\* C4: after schedule() no task H is short of slots while a task L of
\* strictly lower priority occupies a slot inside H's working period.
HigherPriorityNeverShortchanged ==
    last.op = "schedule" =>
        ~ \E H \in DOMAIN tasks, L \in DOMAIN tasks :
            /\ tasks[L].priority < tasks[H].priority
            /\ Held(slots, H) < Required(H)
            /\ \E k \in DOMAIN slots : slots[k] = L /\ Contains(tasks[H], k)

\* C5: when insert_task or remove_task returns, every occupied slot lies
\* inside the current working period of the task it refers to, also when
\* insert_task replaced a task by one with another working period.
DbMutationsKeepSlotsInPeriod ==
    last.op \in {"insert_task", "remove_task"} => check_times(tasks, slots)

\* C6: shuffle() called on a slot map whose occupied slots all lie inside
\* their occupants' working periods leaves such a slot map, whatever the
\* random choices; by induction the same holds after any number of calls.
ShuffleKeepsSlotsInPeriod ==
    (last.op = "shuffle" /\ check_times(tasks, last.pre))
        => check_times(tasks, slots)

\* C6 witness: a shuffle that moved a task to another slot
ShuffleMovedATask ==
    /\ last.op = "shuffle"
    /\ check_times(tasks, last.pre)
    /\ \E k \in DOMAIN slots : slots[k] # None /\ last.pre[k] # slots[k]

\* the call of shuffle_maximizing that led to the state, its scores numbers
Maximized ==
    /\ last.op = "shuffle_maximizing"
    /\ IsNumber(Score(last.goal, last.pre, now))

\* C7: with totally ordered scores and any budget, none included, the score
\* shuffle_maximizing returns is at least the score of the schedule before
\* the call, and the committed schedule's score never drops over a trial.
ShuffleMaximizingNeverLosesScore ==
    Maximized =>
        /\ AtLeast(last.ret[1], Score(last.goal, last.pre, now))
        /\ \A i \in DOMAIN last.trials :
               AtLeast(Score(last.goal, last.trials[i].after, now),
                       Score(last.goal, last.trials[i].committed, now))

\* C7 witness: a call whose second trial raised the score once more
ScoreRaisedTwice ==
    /\ Maximized
    /\ Len(last.trials) = 2
    /\ \A i \in DOMAIN last.trials :
           Greater(Score(last.goal, last.trials[i].after, now),
                   Score(last.goal, last.trials[i].committed, now))

\* C8: a trial whose score is not strictly above the best so far leaves the
\* committed schedule as it was before the trial, and the committed schedule
\* is replaced only by a trial that scored strictly more.
LosingTrialLeavesCommitted ==
    last.op = "shuffle_maximizing" =>
        /\ \A i \in DOMAIN last.trials :
               LET t == last.trials[i]
                   before == IF i = 1 THEN last.pre ELSE last.trials[i - 1].after
               IN /\ t.committed = before
                  /\ ~Greater(t.score, t.to_beat) => t.after = t.committed
                  /\ t.after # t.committed =>
                         (Greater(t.score, t.to_beat) /\ t.after = t.copy)
        /\ slots = IF last.trials = <<>> THEN last.pre
                   ELSE last.trials[Len(last.trials)].after

\* C8 witness: a trial tied with the best score on another schedule, and a
\* trial scored less; both were discarded
TieAndLossDiscarded ==
    /\ last.op = "shuffle_maximizing"
    /\ \E i \in DOMAIN last.trials :
           LET t == last.trials[i]
           IN /\ t.copy # t.committed
              /\ AtLeast(t.score, t.to_beat) /\ AtLeast(t.to_beat, t.score)
              /\ t.after = t.committed
    /\ \E i \in DOMAIN last.trials :
           LET t == last.trials[i]
           IN Greater(t.to_beat, t.score) /\ t.after = t.committed

\* C11: in the starvation scenario (48 empty slots half an hour apart, A
\* with priority 1, hours 4 to 6, one hour; B with priority 9, hours 2 to
\* 23, thirteen hours) schedule() returns the empty set.
StarvationScenarioSatisfied ==
    (/\ last.op = "schedule"
     /\ tasks = StarvationTasks
     /\ Cardinality(DOMAIN last.pre) = 48
     /\ \A k \in DOMAIN last.pre : last.pre[k] = None)
        => last.ret = {}

\* C11 witness: the scenario scheduled from the empty map; A holds its 3
\* slots and B its 32
StarvationScenarioScheduled ==
    /\ last.op = "schedule"
    /\ tasks = StarvationTasks
    /\ \A k \in DOMAIN last.pre : last.pre[k] = None
    /\ Held(slots, 1) = 3
    /\ Held(slots, 2) = 32

\* N + 1 tasks of pairwise distinct priorities that need one slot each and
\* share one working period, which holds N slots
Infeasible ==
    /\ DOMAIN tasks # {}
    /\ \A i \in DOMAIN tasks, j \in DOMAIN tasks :
           /\ tasks[i].start = tasks[j].start
           /\ tasks[i].end = tasks[j].end
           /\ i # j => tasks[i].priority # tasks[j].priority
    /\ \A i \in DOMAIN tasks :
           /\ Required(i) = 1
           /\ Cardinality({k \in DOMAIN slots : Contains(tasks[i], k)}) + 1
                  = Cardinality(DOMAIN tasks)

\* C12: in the infeasible scenario, scheduled from empty slots, schedule()
\* returns the set that holds the lowest-priority task and nothing else,
\* whatever the order of seeding and of the preemption turns.
InfeasibleReturnsLowestPriority ==
    (/\ last.op = "schedule"
     /\ Infeasible
     /\ \A k \in DOMAIN last.pre : last.pre[k] = None)
        => /\ Cardinality(last.ret) = 1
           /\ \A id \in last.ret :
                  \A other \in DOMAIN tasks :
                      tasks[id].priority <= tasks[other].priority

\* C12 witness: the scenario with 4 tasks and 3 slots, where the seed left
\* out a task other than the lowest, which then took its preemption turn
InfeasibleWithPreemption ==
    /\ last.op = "schedule"
    /\ Infeasible
    /\ Cardinality(DOMAIN tasks) = 4
    /\ \A k \in DOMAIN last.pre : last.pre[k] = None
    /\ \E id \in last.ret : Held(slots, id) = 1

NoStaleReferenceAfterSchedule ==
    last.op = "schedule" => NoStaleSlot(tasks, slots)

\* C14 witness: a slot that held an id missing from the table went to a
\* task of the table, and another such slot was left empty
StaleSlotFreedAndReassigned ==
    /\ last.op = "schedule"
    /\ \E k \in DOMAIN slots :
           /\ last.pre[k] \notin (DOMAIN tasks) \cup {None}
           /\ slots[k] \in DOMAIN tasks
    /\ \E k \in DOMAIN slots :
           /\ last.pre[k] \notin (DOMAIN tasks) \cup {None}
           /\ slots[k] = None

\* C15: schedule() takes no slot from a task in favour of a task of equal
\* or lower priority (a task that held no more slots than it needs loses a
\* slot only to a task of strictly higher priority), and when all tasks
\* have one priority the result is the greedy seed: the preemption phase
\* changes no slot and no outstanding requirement.
EqualPriorityNeverPreempts ==
    last.op = "schedule" =>
        /\ \A k \in DOMAIN slots :
               LET a == last.pre[k]
                   b == slots[k]
               IN (/\ a \in DOMAIN tasks
                   /\ Held(last.pre, a) <= Required(a)
                   /\ b # a)
                      => /\ b \in DOMAIN tasks
                         /\ tasks[b].priority > tasks[a].priority
        /\ (\A i \in DOMAIN tasks, j \in DOMAIN tasks :
                tasks[i].priority = tasks[j].priority)
               => \E order \in Orders(DOMAIN tasks) :
                      LET seeded == GreedySeed(tasks, last.pre, order)
                      IN /\ slots = seeded.slots
                         /\ last.ret = {id \in DOMAIN tasks : seeded.wants[id] # 0}

\* C15 witness: two tasks of one priority, one of them short of slots while
\* the other holds a slot inside its working period
PeerKeepsItsSlot ==
    /\ last.op = "schedule"
    /\ \E i \in DOMAIN tasks, j \in DOMAIN tasks :
           /\ i # j
           /\ tasks[i].priority = tasks[j].priority
           /\ i \in last.ret
           /\ \E k \in DOMAIN slots : slots[k] = j /\ Contains(tasks[i], k)

\* the outstanding requirements of the call in progress, each weighted with
\* the priority of its task
OutstandingWeight ==
    SumOf([i \in DOMAIN last.order |->
              last.wants[last.order[i]] * tasks[last.order[i]].priority])

\* C16: the preemption loop of schedule() terminates, whatever the task
\* table, the slot map and the order of the turns: some pass evicts nothing.
\* Every pass that evicts something lowers the priority-weighted sum of the
\* outstanding requirements, which is never negative, so only finitely many
\* such passes precede the pass with zero evictions.
PreemptionLoopTerminates ==
    [][(InLoop /\ InLoop') =>
           /\ OutstandingWeight' < OutstandingWeight
           /\ OutstandingWeight' >= 0]_vars

\* C16 witness: a call returned after two passes that evicted something
ReturnedAfterTwoEvictingPasses ==
    /\ last.op = "returned"
    /\ last.passes >= 2

\* C19: in the preemption phase every eviction hands the slot to the
\* claimant, the one that brings the claimant's requirement to zero too, so
\* that after the evictions and when schedule() returns each task's
\* outstanding requirement is its required slot count less the slots it
\* holds.
WantsMatchSlotsHeld ==
    last.op \in {"seeded", "pass", "returned"} =>
        \A id \in DOMAIN tasks : last.wants[id] = Required(id) - Held(slots, id)

\* C17: create_slots_up_to(target) terminates for a finite target, with
\* positive lengths and break_interval >= 1: the cursor grows on every
\* iteration of the loop, the move to the next day included, and the call
\* returns once the cursor is past the target.
CreateSlotsTerminates ==
    /\ [][(Creating /\ Creating') => last'.cursor > last.cursor]_vars
    /\ [](last.op = "created" => last.cursor > last.time)
    /\ (Creating ~> (last.op = "created"))

\* C17 witness: a call returned after its cursor moved to the next day and
\* on to the day after
CreatedOverTwoRollovers ==
    /\ last.op = "created"
    /\ \E i \in DOMAIN pomodoro_states :
           pomodoro_states[i].start = DayLength + active_start
    /\ \E i \in DOMAIN pomodoro_states :
           pomodoro_states[i].start = 2 * DayLength + active_start

\* C18: a trial whose score is not-a-number is never an improvement:
\* shuffle_maximizing leaves the committed schedule and the best score as
\* they were before that trial.
NanTrialIsDiscarded ==
    last.op = "shuffle_maximizing" =>
        \A i \in DOMAIN last.trials :
            LET t == last.trials[i]
                best == IF i = Len(last.trials) THEN last.ret[1]
                        ELSE last.trials[i + 1].to_beat
            IN ~IsNumber(t.score) =>
                   /\ t.after = t.committed
                   /\ best = t.to_beat

\* C18 witness: a trial that shuffled the schedule and scored not-a-number
NanTrialOnShuffledCopy ==
    /\ last.op = "shuffle_maximizing"
    /\ \E i \in DOMAIN last.trials :
           /\ ~IsNumber(last.trials[i].score)
           /\ last.trials[i].copy # last.trials[i].committed

\* C20: after schedule() no task of the returned set has an empty slot
\* inside its working period: a task that lost slots to preemption is not
\* left short while a free slot it could use exists.
NoUnsatisfiedTaskBesideFreeSlot ==
    last.op = "schedule" =>
        \A id \in last.ret :
            ~ \E k \in DOMAIN slots : slots[k] = None /\ Contains(tasks[id], k)

\* the call of schedule() that led to the state started from empty slots
FromEmptySlots ==
    /\ last.op = "schedule"
    /\ \A k \in DOMAIN last.pre : last.pre[k] = None

\* some assignment of the slots gives every task of the table the slots it
\* needs, all of them inside its working period
Feasible ==
    \E sl \in [DOMAIN slots -> {None} \cup DOMAIN tasks] :
        /\ check_times(tasks, sl)
        /\ \A id \in DOMAIN tasks : Held(sl, id) = Required(id)

\* no two working periods overlap in part: any two of them are disjoint, or
\* one lies within the other
Nested ==
    \A i \in DOMAIN tasks, j \in DOMAIN tasks :
        \/ tasks[i].end <= tasks[j].start
        \/ tasks[j].end <= tasks[i].start
        \/ (tasks[i].start <= tasks[j].start /\ tasks[j].end <= tasks[i].end)
        \/ (tasks[j].start <= tasks[i].start /\ tasks[i].end <= tasks[j].end)

\* C21 as stated: whenever some assignment of slots gives every task its
\* required number of slots inside its own working period, schedule() run
\* on an all-empty slot map returns the empty set.
FeasibleIsSatisfied ==
    (FromEmptySlots /\ Feasible) => last.ret = {}

\* C21 as amended: the same, for task tables in which no two working
\* periods overlap in part.
FeasibleNestedIsSatisfied ==
    (FromEmptySlots /\ Feasible /\ Nested) => last.ret = {}

\* C21 witness: three tasks with working periods one within the other,
\* satisfied from empty slots, the widest after passing over a taken slot
NestedTasksSatisfied ==
    /\ FromEmptySlots
    /\ Feasible
    /\ Nested
    /\ Cardinality(DOMAIN tasks) = 3
    /\ last.ret = {}
    /\ \E i \in DOMAIN tasks, j \in DOMAIN tasks :
           /\ PeriodLength(tasks[i]) < PeriodLength(tasks[j])
           /\ \E k \in DOMAIN slots, m \in DOMAIN slots :
                  k < m /\ slots[k] = i /\ slots[m] = j /\ Contains(tasks[j], k)

\* C22: schedule() is idempotent: a second call right after a first one,
\* with the task table and the slot keys as they were, leaves the slot map
\* unchanged and returns the set the first call returned.
ScheduleIsIdempotent ==
    [][(last.op = "schedule" /\ last'.op = "schedule")
           => (slots' = slots /\ last'.ret = last.ret)]_vars

\* every task of the table holds exactly the slots it needs in sl, all of
\* them inside its working period, and sl names no task missing from the table
Settled(sl) ==
    /\ NoStaleSlot(tasks, sl)
    /\ check_times(tasks, sl)
    /\ \A id \in DOMAIN tasks : Held(sl, id) = Required(id)

\* C23: if before the call every task holds exactly its required number of
\* slots, all inside its working period, and no slot refers to a missing
\* task, then schedule() returns the empty set and leaves the slot map
\* unchanged; an arrangement that shuffle_maximizing committed survives the
\* schedule() of the next housekeeping().
SettledMapIsLeftAlone ==
    (last.op \in Scheduling /\ Settled(last.pre))
        => (last.ret = {} /\ slots = last.pre)

\* C23 witness: schedule() ran on a settled map of two tasks that is not a
\* greedy seed: a task holds a slot while an earlier slot of its working
\* period is empty
ShuffledArrangementKept ==
    /\ last.op \in Scheduling
    /\ Settled(last.pre)
    /\ Cardinality(DOMAIN tasks) = 2
    /\ \A id \in DOMAIN tasks : Held(last.pre, id) >= 1
    /\ \E id \in DOMAIN tasks :
           \E k \in DOMAIN last.pre, m \in DOMAIN last.pre :
               /\ k < m
               /\ last.pre[k] = None
               /\ last.pre[m] = id
               /\ Contains(tasks[id], k)

\* the number of slots inside the working period of a task
SlotsInside(id) == Cardinality({k \in DOMAIN slots : Contains(tasks[id], k)})

\* the task's working period is strictly shorter than every other task's
Narrowest(id) ==
    \A other \in (DOMAIN tasks) \ {id} :
        PeriodLength(tasks[id]) < PeriodLength(tasks[other])

\* C24: the greedy seed serves the tasks in ascending order of working
\* period length: from an all-empty slot map, a task whose working period is
\* strictly shorter than every other task's holds min(required, slots
\* inside its period) slots when the seed phase ends, whatever the
\* priorities and the ids.
SeedServesNarrowestFirst ==
    (last.op = "seeded" /\ \A k \in DOMAIN last.pre : last.pre[k] = None)
        => \A id \in DOMAIN tasks :
               Narrowest(id) =>
                   Held(slots, id) = MinOf({Required(id), SlotsInside(id)})

\* C24 witness: the seed phase ended with the narrowest of three tasks
\* holding every slot of its working period, fewer than it needs, though
\* the HashMap yields it last and it has the lowest priority, and with a
\* wider task left short of a slot the narrowest holds
NarrowestServedBeforeWider ==
    /\ last.op = "seeded"
    /\ \A k \in DOMAIN last.pre : last.pre[k] = None
    /\ Cardinality(DOMAIN tasks) = 3
    /\ \E id \in DOMAIN tasks :
           /\ Narrowest(id)
           /\ last.order[3] = id
           /\ Required(id) > SlotsInside(id)
           /\ Held(slots, id) = SlotsInside(id)
           /\ \E other \in (DOMAIN tasks) \ {id} :
                  /\ tasks[id].priority < tasks[other].priority
                  /\ last.wants[other] > 0
                  /\ \E k \in DOMAIN slots :
                         slots[k] = id /\ Contains(tasks[other], k)

\* C25: a task claims empty slots in ascending time order: with a single
\* task and an all-empty slot map, after schedule() the task occupies
\* exactly the earliest min(required, k) of the k slots inside its working
\* period, every other slot is empty, and the task is returned as
\* unsatisfied exactly when required > k.
SingleTaskTakesEarliestSlots ==
    (/\ last.op = "schedule"
     /\ \A k \in DOMAIN last.pre : last.pre[k] = None
     /\ Cardinality(DOMAIN tasks) = 1)
        => \A id \in DOMAIN tasks :
               LET inside == RangeKeys(slots, tasks[id])
                   taken == MinOf({Required(id), Len(inside)})
               IN /\ \A i \in DOMAIN inside :
                         slots[inside[i]] = IF i <= taken THEN id ELSE None
                  /\ \A k \in DOMAIN slots :
                         ~Contains(tasks[id], k) => slots[k] = None
                  /\ (id \in last.ret) <=> (Required(id) > Len(inside))

\* C25 witness: a single task that needs one slot, scheduled from empty
\* slots, holds the first slot of its working period; a later slot of the
\* period and a slot before the period are empty
SingleTaskOnFirstSlot ==
    /\ last.op = "schedule"
    /\ \A k \in DOMAIN last.pre : last.pre[k] = None
    /\ DOMAIN tasks = {1}
    /\ Required(1) = 1
    /\ last.ret = {}
    /\ Held(slots, 1) = 1
    /\ \E k \in DOMAIN slots : k < tasks[1].start /\ slots[k] = None
    /\ \E k \in DOMAIN slots : Contains(tasks[1], k) /\ slots[k] = None

\* C26: within one preemption turn the claimant takes slots in ascending
\* order of occupant priority: it never takes a slot from an occupant of
\* priority p while a slot inside its working period is left with an
\* occupant of priority strictly lower than p.
TurnTakesWeakestFirst ==
    last.op = "turn" =>
        \A k \in DOMAIN slots :
            (last.from[k] # slots[k] /\ slots[k] = last.claimant) =>
                ~ \E m \in DOMAIN slots :
                      /\ Contains(tasks[last.claimant], m)
                      /\ slots[m] # None
                      /\ slots[m] = last.from[m]
                      /\ tasks[slots[m]].priority < tasks[last.from[k]].priority

\* C26 witness: a turn in which the claimant took a slot from the weakest
\* occupant of its working period and left a slot with a stronger occupant
\* that it could have evicted as well
WeakestEvictedStrongerLeft ==
    /\ last.op = "turn"
    /\ \E k \in DOMAIN slots, m \in DOMAIN slots :
           /\ last.from[k] # slots[k]
           /\ slots[k] = last.claimant
           /\ Contains(tasks[last.claimant], m)
           /\ slots[m] # None
           /\ slots[m] = last.from[m]
           /\ tasks[last.from[k]].priority < tasks[slots[m]].priority
           /\ tasks[slots[m]].priority < tasks[last.claimant].priority

\* the slot maps a and b have the same keys and give every occupant, and
\* None, the same number of slots
SameHoldings(a, b) ==
    /\ DOMAIN a = DOMAIN b
    /\ \A k \in DOMAIN a : Held(b, a[k]) = Held(a, a[k])

\* C27: shuffle() only permutes occupants among the existing slots: the
\* slot keys, the task table and the number of slots each task holds are
\* the same before and after the shuffle() of every trial and before and
\* after shuffle_maximizing (timeslice_length is a constant of the model).
ShufflePermutesOccupants ==
    [][/\ last'.op \in {"shuffle", "shuffle_maximizing"} =>
              (tasks' = tasks /\ SameHoldings(slots, slots'))
       /\ last'.op = "shuffle_maximizing" =>
              \A i \in DOMAIN last'.trials :
                  /\ SameHoldings(last'.trials[i].committed, last'.trials[i].copy)
                  /\ SameHoldings(slots, last'.trials[i].copy)]_vars

\* C27 witness: shuffle_maximizing on a schedule of two tasks that both
\* hold slots; both trials moved occupants, and the committed schedule
\* changed
TwoShufflesMovedOccupants ==
    /\ last.op = "shuffle_maximizing"
    /\ Cardinality(DOMAIN tasks) = 2
    /\ \A id \in DOMAIN tasks : Held(slots, id) >= 1
    /\ Len(last.trials) = 2
    /\ \A i \in DOMAIN last.trials :
           last.trials[i].copy # last.trials[i].committed
    /\ slots # last.pre

\* the slot of the iteration that led to the state
LeftTime == Keys(last.from)[last.index]

\* C28: every swap of shuffle() exchanges the contents of a slot at time t
\* with a later slot at time t2 such that every slot key in (t, t2] lies
\* inside the working period of the occupant of t (any later slot will do
\* when t is empty) and the occupant of t2, if any, has t inside its own
\* working period; no other pair of slots exchanges contents.
SwapsAreLocal ==
    /\ last.op = "swap" =>
           LET t == LeftTime
               t2 == last.right
               left == last.from[t]
               right == last.from[t2]
           IN /\ t2 \in DOMAIN last.from
              /\ t < t2
              /\ left # None =>
                     \A k \in DOMAIN last.from :
                         (t < k /\ k <= t2) => Contains(tasks[left], k)
              /\ right # None => Contains(tasks[right], t)
              /\ slots = [last.from EXCEPT ![t] = right, ![t2] = left]
    /\ last.op = "keep" => slots = last.from

\* C28 witness: a swap of two occupied slots that skipped a slot in between,
\* whose occupant could not move to the earlier time
SwapSkippedASlot ==
    /\ last.op = "swap"
    /\ last.from[LeftTime] # None
    /\ last.from[last.right] # None
    /\ last.from[last.right] # last.from[LeftTime]
    /\ \E k \in DOMAIN slots :
           /\ LeftTime < k
           /\ k < last.right
           /\ last.from[k] # None
           /\ ~Contains(tasks[last.from[k]], LeftTime)

\* C29: for every break_interval >= 1, every state reached from LongBreak
\* by ticks is LongBreak, Work(n) or Break(n) with 0 <= n < break_interval,
\* and LongBreak recurs after exactly 2 * break_interval ticks, with
\* exactly break_interval Work states in between.
CadenceStaysWithinInterval ==
    phase = "tick" =>
        /\ timer.kind \in {"LongBreak", "Work", "Break"}
        /\ 0 <= timer.n /\ timer.n < break_interval
        /\ \A i \in DOMAIN history :
               /\ (history[i] = LongBreak) <=> (i % (2 * break_interval) = 0)
               /\ history[i] = LongBreak =>
                      Cardinality({j \in (i - 2 * break_interval + 1)..i :
                                      history[j].kind = "Work"}) = break_interval

\* C29 witness: with the largest break_interval, LongBreak reached again by
\* ticks alone
LongBreakRecurred ==
    /\ phase = "tick"
    /\ break_interval = MaxBreakInterval
    /\ Len(history) = 2 * break_interval
    /\ timer = LongBreak

\* C30: every slot opened by create_slots_up_to starts, in local time,
\* inside the daily active window [active_start, active_end), whatever the
\* current time is when the call is made and however many calls came
\* before.
SlotsOpenInsideActiveWindow ==
    \A t \in DOMAIN slots :
        active_start <= TimeOfDay(t) /\ TimeOfDay(t) < active_end

\* C31: at each day boundary the cadence is reset: whenever the cursor has
\* passed active_end, the next timeline entry appended, in the same
\* create_slots_up_to call or in a later one, is Work(break_interval - 1)
\* starting at the next day's active_start.
CadenceResetAtDayBoundary ==
    \A i \in DOMAIN pomodoro_states :
        (i > 1 /\ PastActiveEnd(pomodoro_states[i - 1].end)) =>
            /\ pomodoro_states[i].state = Work(break_interval - 1)
            /\ pomodoro_states[i].start =
                   NextActiveStart(pomodoro_states[i - 1].end)

\* C32: after any sequence of create_slots_up_to, insert_task, remove_task
\* and housekeeping calls a slot exists at time t if and only if the
\* timeline log holds a Work entry starting at t: Break and LongBreak
\* entries open no slot, and no Work entry kept in the log lacks its slot.
SlotsMatchWorkEntries ==
    DOMAIN slots =
        {pomodoro_states[i].start :
            i \in {j \in DOMAIN pomodoro_states :
                      pomodoro_states[j].state.kind = "Work"}}

\* the timeline entry appended by the step, and the log before the step
Appended == pomodoro_states'[Len(pomodoro_states')]
Previous == pomodoro_states[Len(pomodoro_states)]

\* the step appends an entry after a day rollover of the same call
RolledOver == last.op = "iteration" /\ PastActiveEnd(Previous.end)

\* C33: within one create_slots_up_to call each appended timeline entry has
\* the state that tick gives from the previous cadence state (the previous
\* entry's state, LongBreak on an empty log or after a day rollover), its
\* length is that state's duration (Work: timeslice_length, Break:
\* short_break, LongBreak: long_break), and unless a day rollover intervened
\* it starts exactly at the end of the entry appended before it.
AppendedEntryFollowsCadence ==
    [][Len(pomodoro_states') = Len(pomodoro_states) + 1 =>
          /\ Appended.state =
                 tick(IF pomodoro_states = <<>> \/ RolledOver
                      THEN LongBreak ELSE Previous.state,
                      break_interval)
          /\ Appended.end - Appended.start =
                 (CASE Appended.state.kind = "Work" -> timeslice_length
                    [] Appended.state.kind = "Break" -> short_break
                    [] Appended.state.kind = "LongBreak" -> long_break)
          /\ (last.op = "iteration" /\ ~RolledOver) =>
                 Appended.start = Previous.end]_vars

\* a call has appended entries of the three kinds, one right after another
\* and one after a day rollover
CallAppendedEveryKind ==
    /\ last.op = "iteration"
    /\ \A k \in {"Work", "Break", "LongBreak"} :
           \E i \in DOMAIN pomodoro_states : pomodoro_states[i].state.kind = k
    /\ \E i \in DOMAIN pomodoro_states :
           /\ i > 1
           /\ PastActiveEnd(pomodoro_states[i - 1].end)
           /\ pomodoro_states[i].start = NextActiveStart(pomodoro_states[i - 1].end)
    /\ \E i \in DOMAIN pomodoro_states :
           i > 1 /\ pomodoro_states[i].start = pomodoro_states[i - 1].end

\* C34: the timeline log is ordered and non-overlapping: after any sequence
\* of create_slots_up_to calls made at non-decreasing current times each
\* entry starts at or after the end of the entry before it, and the starts
\* are strictly increasing.
TimelineOrdered ==
    \A i \in DOMAIN pomodoro_states :
        i > 1 =>
            /\ pomodoro_states[i].start >= pomodoro_states[i - 1].end
            /\ pomodoro_states[i].start > pomodoro_states[i - 1].start

\* the log holds entries of two calls made at different times: a gap that no
\* day rollover made, and an entry that follows its predecessor at once
TimelineOfTwoCalls ==
    /\ \E i \in DOMAIN pomodoro_states :
           /\ i > 1
           /\ pomodoro_states[i].start > pomodoro_states[i - 1].end
           /\ pomodoro_states[i].start = now
           /\ ~PastActiveEnd(pomodoro_states[i - 1].end)
    /\ \E i \in DOMAIN pomodoro_states :
           i > 1 /\ pomodoro_states[i].start = pomodoro_states[i - 1].end

\* C35: create_slots_up_to(target) covers the target in one call: a second
\* call with the same target at the same current time appends no timeline
\* entry and opens no slot, wherever the target lies in the day.
SecondCallAddsNothing ==
    [][(/\ last.op = "create_slots_up_to"
        /\ last'.op = "create_slots_up_to"
        /\ last'.ret = last.ret) =>
           /\ pomodoro_states' = pomodoro_states
           /\ slots' = slots]_vars

\* C9: for every break_interval >= 1 and every state s reached from
\* LongBreak by ticks, untick(tick(s)) = s; and unticking after ticking
\* walks back through the states the ticks went through, down to LongBreak.
TickUntickRoundTrip ==
    /\ phase = "tick" =>
           untick(tick(timer, break_interval), break_interval) = timer
    /\ phase = "untick" =>
           timer = IF history = <<>> THEN LongBreak ELSE history[Len(history)]

\* C9 witness: ticks with a break_interval above 1, all of them unticked again
TickedAndUntickedBack ==
    /\ phase = "untick"
    /\ history = <<>>
    /\ timer = LongBreak
    /\ break_interval > 1

\* the reference of the test pomodoro_works_ok
ReferenceCycle ==
    <<Work(3), Break(2), Work(2), Break(1), Work(1), Break(0), Work(0), LongBreak>>

\* C10: from LongBreak with break_interval = 4 the ticks yield Work(3),
\* Break(2), Work(2), Break(1), Work(1), Break(0), Work(0), LongBreak, and
\* then the same sequence again.
TicksOfFourFollowReference ==
    (break_interval = 4 /\ phase = "tick") =>
        \A i \in DOMAIN history :
            history[i] = ReferenceCycle[((i - 1) % Len(ReferenceCycle)) + 1]

\* C10 witness: two whole cycles ticked through with break_interval = 4
TwoCyclesOfFour ==
    /\ break_interval = 4
    /\ phase = "tick"
    /\ Len(history) = 2 * Len(ReferenceCycle)

=============================================================================
